---------------------------- MODULE Spec2Model ----------------------------
(***************************************************************************)
(* Rate-Limiter: the two admission algorithms of the repository.           *)
(*                                                                         *)
(*   LeakyBucket  (src/Rate-Limiter/leaking_bucket.cpp)                    *)
(*   TokenBucket  (src/Rate-Limiter/token_bucket.cpp)                      *)
(*                                                                         *)
(* The two classes are separate programs (neither file includes the        *)
(* other), so each has its own specification: SpecLeaky and SpecToken.     *)
(* SpecBurst drives one instance of each with calls at one timestamp.      *)
(*                                                                         *)
(* Numbers.                                                                *)
(*  - LeakyBucket::bucket is a double.  It is kept here in thousandths of  *)
(*    a request (One == 1000 is the source's 1.0), so that the drain       *)
(*    delta_ms * (leakRate / 1000.0) is the integer delta_ms * leakRate.   *)
(*    On the timestamps of LbTimes (multiples of 250 ms, and -1) the       *)
(*    double computation and this exact one give the same return values    *)
(*    and the same levels; on other timestamps the double's rounding can   *)
(*    differ from the exact value in the last place.                       *)
(*  - TokenBucket::tokens is a double that only ever holds whole numbers:  *)
(*    it starts at capacity, `earned` is a long product converted to       *)
(*    double, and 1.0 is subtracted.  It is an integer here.               *)
(*  - TokenBucket::isAllowable reads the clock itself; the reading `now`   *)
(*    is the action's input.  The readings of TbTimes lie in the range of  *)
(*    int, where the store `lastRefillTime = now` (long to int) keeps the  *)
(*    value.                                                               *)
(*  - Readings beyond the range of int are taken in a part of their own    *)
(*    (the wide clock), where a 64-bit value is the pair [hi, lo] standing *)
(*    for hi * 2^31 + lo, the store into the int keeps the low 32 bits     *)
(*    (two's complement, as gcc, clang and msvc convert), and the clock    *)
(*    never goes back, as std::chrono::steady_clock promises.              *)
(***************************************************************************)
EXTENDS Integers

\* ----------------------------------------------------------------- bounds
\* capacities 1..MaxCapacity are constructed
MaxCapacity == 2
\* leak rates 1..MaxLeakRate (requests per second) are constructed
MaxLeakRate == 2
\* calls made on one instance
MaxCalls == 4
\* clock readings up to (MaxWrap + 1) * 2^31 - 1 are considered
MaxWrap == 2

\* ------------------------------------------------------ program constants
\* leaking_bucket.cpp:63, the divisor 1000.0 (milliseconds per second); also
\* the scale of `bucket`: One stands for the source's 1.0
One == 1000
\* leaking_bucket.cpp:39, last_ts(-1): "no call yet"
NoTs == -1
\* token_bucket.cpp:39, refillRate/60
SecPerMin == 60
\* token_bucket.cpp:29, int lastRefillTime: the largest int, 2^31 - 1
IntMax == 2147483647

\* ------------------------------------------------------------------ inputs
\* timestamps (ms) a caller passes to LeakyBucket::allow: negative, the value
\* -1, zero, and later ones, in any order
LbTimes == {-1000, -1, 0, 500, 1000, 2000}
\* clock readings (s) seen by TokenBucket::isAllowable: seconds since the
\* clock's epoch, not negative and within the range of int, in any order
TbTimes == {0, 1, 2, 3}
\* refill rates (tokens per minute): below 60, 60, not a multiple of 60, 120
TbRates == {30, 60, 90, 120}
\* 64-bit clock readings hi * 2^31 + lo: the ends of each span of 2^31
\* seconds, so 0, 1, 2^31 - 1, 2^31, 2^31 + 1, 2^32 - 1, 2^32, ...
WideHi == 0..MaxWrap
WideLo == {0, 1, IntMax - 1, IntMax}

VARIABLES lb, lbh, tb, tbh, thr, rh, clk
\* lb  : the LeakyBucket object   [capacity, leakRate, bucket, last_ts]
\* tb  : the TokenBucket object   [capacity, tokens, refillRate, lastRefillTime]
\* lbh, tbh : what a caller has observed of the instance (history):
\*   calls   number of calls made          admits  number that returned true
\*   ts/now  timestamp of the last call    ret     its return value
\*   same    all calls so far carried one timestamp
\*   first   timestamp of the first call
\*   max     largest timestamp passed                           (leaky)
\*   mono    no call so far carried a smaller timestamp than the one before
\*   streak  length of the run of admitted calls at the last timestamp (leaky)
\*   lastok  timestamp of the last admitted check               (token)
\*   dep     the last admitted check took the last token        (token)
\*   wasdep  dep as it was before the last check                 (token)
\*   gap     seconds from the admitted check before the last check to the
\*           last check                                         (token)
\*   since   denied checks since the last admitted one          (token)
\*   before  since as it was before the last check              (token)
\*   deny    a denied check has happened and no check since carried a
\*           larger timestamp than the check before it
\*   inrun   the last call was such a further check of a denial run
\* thr : the callers that share the instances without mutual exclusion; for
\*       each its place in the call it is making:
\*   pc   "idle", "drain" (entered), "check" (level reconciled), "write"
\*        (passed the test, level not yet written)
\*   obj  "leaky" or "token": the instance called
\*   ts   the timestamp of the call
\*   reg  the level this caller read for its test
\* rh  : what has been observed of the shared instances (history):
\*   n         calls entered
\*   tL, tT    the timestamp of the calls on the leaky / the token bucket
\*   okL, okT  calls that returned true
\*   lapL, lapT  a caller passed the test while another had passed it and
\*             not yet written the level
\* clk : the clock as isAllowable reads it when its whole 64-bit range is
\*       considered; a reading is hi * 2^31 + lo with 0 <= lo < 2^31:
\*   hi, lo      the reading of the last check
\*   okhi, oklo  the reading of the admitted check before the last check
\*   hadok       there was such an admitted check
\*   tp          the elapsed time the last check computed, as [hi, lo]
vars == <<lb, lbh, tb, tbh, thr, rh, clk>>

\* ------------------------------------------------------------- std helpers
StdMax(a, b) == IF a < b THEN b ELSE a

StdMin(a, b) == IF b < a THEN b ELSE a

\* ============================================================ LeakyBucket

\* if (last_ts == -1)
FirstCall(l) == l.last_ts = NoTs

\* int64_t delta_ms = ts_ms - last_ts; if (delta_ms < 0) delta_ms = 0;
DeltaMs(ts_ms, last_ts) == IF ts_ms - last_ts < 0 THEN 0 ELSE ts_ms - last_ts

Drained_NoFloor(bucket, delta_ms, leakRate) == bucket - delta_ms * leakRate

\* drain = delta_ms * (leakRate / 1000.0); bucket = std::max(0.0, bucket - drain)
Drained(bucket, delta_ms, leakRate) == StdMax(0, bucket - delta_ms * leakRate)

Fits_Strict(bucket, capacity) == bucket + One < capacity * One

Fits_WhenFull(bucket, capacity) == bucket <= capacity * One

\* if (bucket + 1.0 <= capacity)
Fits(bucket, capacity) == bucket + One <= capacity * One

\* the level the admission test sees: undrained on the first-call path
PostDrain(l, ts_ms) ==
    IF FirstCall(l) THEN l.bucket
    ELSE Drained(l.bucket, DeltaMs(ts_ms, l.last_ts), l.leakRate)

\* the return value of allow(ts_ms)
AllowRet(l, ts_ms) == Fits(PostDrain(l, ts_ms), l.capacity)

AllowState_LastOnAdmit(l, ts_ms) ==
    IF AllowRet(l, ts_ms)
    THEN [l EXCEPT !.last_ts = ts_ms, !.bucket = PostDrain(l, ts_ms) + One]
    ELSE [l EXCEPT !.bucket = PostDrain(l, ts_ms)]

\* the object after allow(ts_ms)
AllowState(l, ts_ms) ==
    [l EXCEPT !.last_ts = ts_ms,
              !.bucket  = IF AllowRet(l, ts_ms) THEN PostDrain(l, ts_ms) + One
                          ELSE PostDrain(l, ts_ms)]

LbObserve(h, ts_ms, r) ==
    [calls  |-> h.calls + 1,
     admits |-> h.admits + (IF r THEN 1 ELSE 0),
     ts     |-> ts_ms,
     ret    |-> r,
     same   |-> h.calls = 0 \/ (h.same /\ ts_ms = h.ts),
     first  |-> IF h.calls = 0 THEN ts_ms ELSE h.first,
     max    |-> IF h.calls = 0 THEN ts_ms ELSE StdMax(h.max, ts_ms),
     mono   |-> h.mono /\ (h.calls = 0 \/ h.ts <= ts_ms),
     streak |-> IF ~r THEN 0
                ELSE IF h.calls > 0 /\ ts_ms = h.ts THEN h.streak + 1 ELSE 1,
     deny   |-> ~r \/ (h.deny /\ ts_ms <= h.ts),
     inrun  |-> h.deny /\ ts_ms <= h.ts]

\* bool allow(int64_t ts_ms)
LbAllow(ts_ms) ==
    /\ lbh.calls < MaxCalls
    /\ lb'  = AllowState(lb, ts_ms)
    /\ lbh' = LbObserve(lbh, ts_ms, AllowRet(lb, ts_ms))
    /\ UNCHANGED <<clk, tb, tbh, thr, rh>>

\* ============================================================ TokenBucket

RatePerSec_PerMinute(refillRate) == refillRate

\* (refillRate/60): int / int, which truncates toward zero
RatePerSec(refillRate) ==
    IF refillRate >= 0 THEN refillRate \div SecPerMin
    ELSE -((-refillRate) \div SecPerMin)

\* long timePassed = now - lastRefillTime
TimePassed(now, lastRefillTime) == now - lastRefillTime

\* double earned = timePassed * (refillRate/60)
Earned(timePassed, refillRate) == timePassed * RatePerSec(refillRate)

\* tokens = std::min((double)capacity, tokens+earned)
Refilled(t, now) ==
    StdMin(t.capacity,
           t.tokens + Earned(TimePassed(now, t.lastRefillTime), t.refillRate))

HasToken_Zero(tokens) == tokens >= 0

\* if (tokens >= 1.0)
HasToken(tokens) == tokens >= 1

\* the return value of isAllowable() when the clock reads now
IsAllowableRet(t, now) == HasToken(Refilled(t, now))

IsAllowableState_AlwaysStamp(t, now) ==
    [t EXCEPT !.tokens = IF IsAllowableRet(t, now) THEN Refilled(t, now) - 1
                         ELSE Refilled(t, now),
              !.lastRefillTime = now]

\* the object after isAllowable() when the clock reads now
IsAllowableState(t, now) ==
    IF IsAllowableRet(t, now)
    THEN [t EXCEPT !.tokens = Refilled(t, now) - 1, !.lastRefillTime = now]
    ELSE [t EXCEPT !.tokens = Refilled(t, now)]

TbObserve(h, now, r, level) ==
    [calls  |-> h.calls + 1,
     admits |-> h.admits + (IF r THEN 1 ELSE 0),
     now    |-> now,
     ret    |-> r,
     same   |-> h.calls = 0 \/ (h.same /\ now = h.now),
     first  |-> IF h.calls = 0 THEN now ELSE h.first,
     mono   |-> h.mono /\ (h.calls = 0 \/ h.now <= now),
     lastok |-> IF r THEN now ELSE h.lastok,
     dep    |-> IF r THEN level = 0 ELSE h.dep,
     wasdep |-> h.dep,
     gap    |-> IF h.admits > 0 THEN now - h.lastok ELSE 0,
     since  |-> IF r THEN 0 ELSE h.since + 1,
     before |-> h.since,
     deny   |-> (~r /\ level >= 0) \/ (h.deny /\ now <= h.now),
     inrun  |-> h.deny /\ now <= h.now]

\* bool isAllowable(), the clock reading now
TbIsAllowable(now) ==
    /\ tbh.calls < MaxCalls
    /\ tb'  = IsAllowableState(tb, now)
    /\ tbh' = TbObserve(tbh, now, IsAllowableRet(tb, now),
                        IsAllowableState(tb, now).tokens)
    /\ UNCHANGED <<clk, lb, lbh, thr, rh>>

\* ========================================= TokenBucket, the wide clock
\* lastRefillTime = now: long to int, the value modulo 2^32 in int's range
ToInt(hi, lo) == IF hi % 2 = 0 THEN lo ELSE (lo - IntMax) - 1

\* an int as [hi, lo]
OfInt(i) ==
    IF i < 0 THEN [hi |-> -1, lo |-> (i + IntMax) + 1] ELSE [hi |-> 0, lo |-> i]

\* a - b for a = [hi, lo] and b = [hi, lo], exact
WideMinus(a, b) ==
    IF a.lo - b.lo >= 0 THEN [hi |-> a.hi - b.hi, lo |-> a.lo - b.lo]
    ELSE [hi |-> a.hi - b.hi - 1, lo |-> ((a.lo - b.lo) + IntMax) + 1]

\* long timePassed = now - lastRefillTime, the int promoted to long
WideTimePassed(now, lastRefillTime) == WideMinus(now, OfInt(lastRefillTime))

\* tokens = std::min((double)capacity, tokens + timePassed * (refillRate/60))
\* for a timePassed that is not negative; once timePassed reaches
\* capacity - tokens and the rate per second is 1 or more, the minimum is
\* capacity
WideRefilled(t, now) ==
    LET tp == WideTimePassed(now, t.lastRefillTime)
        k  == RatePerSec(t.refillRate)
    IN  IF k = 0 THEN StdMin(t.capacity, t.tokens)
        ELSE IF tp.hi > 0 \/ tp.lo >= t.capacity - t.tokens THEN t.capacity
        ELSE StdMin(t.capacity, t.tokens + tp.lo * k)

\* bool isAllowable(), the clock reading hi * 2^31 + lo, not before the
\* reading of the check before
WideIsAllowable(hi, lo) ==
    LET now   == [hi |-> hi, lo |-> lo]
        level == WideRefilled(tb, now)
        ok    == HasToken(level)
    IN  /\ tbh.calls < MaxCalls
        /\ hi > clk.hi \/ (hi = clk.hi /\ lo >= clk.lo)
        /\ tb' = IF ok THEN [tb EXCEPT !.tokens = level - 1,
                                       !.lastRefillTime = ToInt(hi, lo)]
                  ELSE [tb EXCEPT !.tokens = level]
        /\ tbh' = [tbh EXCEPT !.calls = @ + 1,
                              !.admits = @ + (IF ok THEN 1 ELSE 0),
                              !.ret = ok]
        /\ clk' = [hi |-> hi, lo |-> lo,
                   okhi |-> IF tbh.ret THEN clk.hi ELSE clk.okhi,
                   oklo |-> IF tbh.ret THEN clk.lo ELSE clk.oklo,
                   hadok |-> tbh.admits > 0,
                   tp |-> WideTimePassed(now, tb.lastRefillTime)]
        /\ UNCHANGED <<lb, lbh, thr, rh>>

\* ================================================ unsynchronised callers
\* "This implementation is NOT thread-safe": two callers share one instance.
\* A call is taken in the steps in which it touches the object: reconciling
\* the level with the elapsed time, reading and testing the level, writing
\* the level.  The steps of different callers interleave freely.
Callers == {1, 2}

Idle == [pc |-> "idle", obj |-> "none", ts |-> 0, reg |-> 0]

\* a caller enters allow(ts_ms); every call on the shared LeakyBucket carries
\* the timestamp of the first one
RaceLbEnter(c, ts_ms) ==
    /\ thr[c].pc = "idle"
    /\ rh.n < MaxCalls
    /\ rh.tL = NoTs - 1 \/ rh.tL = ts_ms
    /\ thr' = [thr EXCEPT ![c] = [Idle EXCEPT !.pc = "drain", !.obj = "leaky",
                                              !.ts = ts_ms]]
    /\ rh' = [rh EXCEPT !.n = @ + 1, !.tL = ts_ms]
    /\ UNCHANGED <<clk, lb, lbh, tb, tbh>>

\* lines 46-48 and 58-67: the time anchor and the drain
RaceLbDrain(c) ==
    /\ thr[c].pc = "drain" /\ thr[c].obj = "leaky"
    /\ lb' = [lb EXCEPT !.bucket = PostDrain(lb, thr[c].ts), !.last_ts = thr[c].ts]
    /\ thr' = [thr EXCEPT ![c].pc = "check"]
    /\ UNCHANGED <<clk, lbh, tb, tbh, rh>>

\* lines 49 and 70: if (bucket + 1.0 <= capacity); else return false
RaceLbCheck(c) ==
    /\ thr[c].pc = "check" /\ thr[c].obj = "leaky"
    /\ thr' = [thr EXCEPT ![c] = IF Fits(lb.bucket, lb.capacity)
                                 THEN [@ EXCEPT !.pc = "write", !.reg = lb.bucket]
                                 ELSE Idle]
    /\ rh' = [rh EXCEPT !.lapL = @ \/ ( /\ Fits(lb.bucket, lb.capacity)
                                        /\ \E d \in Callers \ {c} :
                                              /\ thr[d].obj = "leaky"
                                              /\ thr[d].pc = "write" )]
    /\ UNCHANGED <<clk, lb, lbh, tb, tbh>>

\* lines 51 and 72: bucket += 1.0; return true.  The two callers race on
\* bucket: the sum written is that of the value read for the test or of
\* the value in memory now.
RaceLbWrite(c) ==
    /\ thr[c].pc = "write" /\ thr[c].obj = "leaky"
    /\ \E old \in {thr[c].reg, lb.bucket} : lb' = [lb EXCEPT !.bucket = old + One]
    /\ thr' = [thr EXCEPT ![c] = Idle]
    /\ rh' = [rh EXCEPT !.okL = @ + 1]
    /\ UNCHANGED <<clk, lbh, tb, tbh>>

\* a caller enters isAllowable() and reads the clock (line 36); every call on
\* the shared TokenBucket reads the same second
RaceTbEnter(c, now) ==
    /\ thr[c].pc = "idle"
    /\ rh.n < MaxCalls
    /\ rh.tT = -1 \/ rh.tT = now
    /\ thr' = [thr EXCEPT ![c] = [Idle EXCEPT !.pc = "drain", !.obj = "token",
                                              !.ts = now]]
    /\ rh' = [rh EXCEPT !.n = @ + 1, !.tT = now]
    /\ UNCHANGED <<clk, lb, lbh, tb, tbh>>

\* lines 38-41: the refill
RaceTbRefill(c) ==
    /\ thr[c].pc = "drain" /\ thr[c].obj = "token"
    /\ tb' = [tb EXCEPT !.tokens = Refilled(tb, thr[c].ts)]
    /\ thr' = [thr EXCEPT ![c].pc = "check"]
    /\ UNCHANGED <<clk, lb, lbh, tbh, rh>>

\* line 43: if (tokens >= 1.0); else return false
RaceTbCheck(c) ==
    /\ thr[c].pc = "check" /\ thr[c].obj = "token"
    /\ thr' = [thr EXCEPT ![c] = IF HasToken(tb.tokens)
                                 THEN [@ EXCEPT !.pc = "write", !.reg = tb.tokens]
                                 ELSE Idle]
    /\ rh' = [rh EXCEPT !.lapT = @ \/ ( /\ HasToken(tb.tokens)
                                        /\ \E d \in Callers \ {c} :
                                              /\ thr[d].obj = "token"
                                              /\ thr[d].pc = "write" )]
    /\ UNCHANGED <<clk, lb, lbh, tb, tbh>>

\* lines 44-46: tokens -= 1.0; lastRefillTime = now; return true.  As for
\* the leaky bucket, the difference written is that of either value.
RaceTbWrite(c) ==
    /\ thr[c].pc = "write" /\ thr[c].obj = "token"
    /\ \E old \in {thr[c].reg, tb.tokens} :
          tb' = [tb EXCEPT !.tokens = old - 1, !.lastRefillTime = thr[c].ts]
    /\ thr' = [thr EXCEPT ![c] = Idle]
    /\ rh' = [rh EXCEPT !.okT = @ + 1]
    /\ UNCHANGED <<clk, lb, lbh, tbh>>

\* ========================================================= specifications

\* nothing observed yet
HistInit ==
    /\ lbh = [calls |-> 0, admits |-> 0, ts |-> 0, ret |-> FALSE, same |-> TRUE,
              first |-> 0, max |-> 0, mono |-> TRUE, streak |-> 0,
              deny |-> FALSE, inrun |-> FALSE]
    /\ tbh = [calls |-> 0, admits |-> 0, now |-> 0, ret |-> FALSE, same |-> TRUE,
              first |-> 0, mono |-> TRUE,
              lastok |-> 0, dep |-> FALSE, wasdep |-> FALSE, gap |-> 0,
              since |-> 0, before |-> 0, deny |-> FALSE, inrun |-> FALSE]
    /\ thr = [c \in Callers |-> Idle]
    /\ rh = [n |-> 0, tL |-> NoTs - 1, tT |-> -1, okL |-> 0, okT |-> 0,
             lapL |-> FALSE, lapT |-> FALSE]
    /\ clk = [hi |-> 0, lo |-> 0, okhi |-> 0, oklo |-> 0, hadok |-> FALSE,
              tp |-> [hi |-> 0, lo |-> 0]]

\* LeakyBucket(int capacity, int leakRate): last_ts(-1), bucket(0); the
\* constructor stores its arguments as they are
LbCtor(capacity, leakRate) ==
    [capacity |-> capacity, leakRate |-> leakRate, bucket |-> 0, last_ts |-> NoTs]

\* TokenBucket(int capacity, int refillRate): tokens(capacity),
\* lastRefillTime(0); the constructor stores its arguments as they are
TbCtor(capacity, refillRate) ==
    [capacity |-> capacity, refillRate |-> refillRate, tokens |-> capacity,
     lastRefillTime |-> 0]

\* a LeakyBucket constructed with capacity >= 1 and leakRate >= 1
LbNew ==
    lb \in {LbCtor(c, r) : c \in 1..MaxCapacity, r \in 1..MaxLeakRate}

\* a TokenBucket constructed with capacity >= 1 and refillRate >= 1
TbNew ==
    tb \in {TbCtor(c, r) : c \in 1..MaxCapacity, r \in TbRates}

\* constructor arguments of any sign
LbNewAny ==
    lb \in {LbCtor(c, r) : c \in -1..MaxCapacity, r \in -1..MaxLeakRate}

TbNewAny ==
    tb \in {TbCtor(c, r) : c \in -1..MaxCapacity, r \in TbRates \cup {-60, 0}}

Init ==
    /\ LbNew
    /\ TbNew
    /\ HistInit

InitAny ==
    /\ LbNewAny
    /\ TbNewAny
    /\ HistInit

LbCall == \E ts_ms \in LbTimes : LbAllow(ts_ms)

TbCall == \E now \in TbTimes : TbIsAllowable(now)

\* calls that all carry the timestamp of the instance's first call
LbBurst == \E ts_ms \in LbTimes : (lbh.calls = 0 \/ ts_ms = lbh.ts) /\ LbAllow(ts_ms)

TbBurst == \E now \in TbTimes : (tbh.calls = 0 \/ now = tbh.now) /\ TbIsAllowable(now)

NextLeaky == LbCall

NextToken == TbCall

NextBurst == LbBurst \/ TbBurst

SpecLeaky == Init /\ [][NextLeaky]_vars

SpecToken == Init /\ [][NextToken]_vars

SpecBurst == Init /\ [][NextBurst]_vars

NextRace ==
    \E c \in Callers :
        \/ \E ts_ms \in LbTimes : RaceLbEnter(c, ts_ms)
        \/ RaceLbDrain(c)
        \/ RaceLbCheck(c)
        \/ RaceLbWrite(c)
        \/ \E now \in TbTimes : RaceTbEnter(c, now)
        \/ RaceTbRefill(c)
        \/ RaceTbCheck(c)
        \/ RaceTbWrite(c)

\* two callers on shared instances, no mutual exclusion
SpecRace == Init /\ [][NextRace]_vars

\* construction with any arguments, then calls at one timestamp
SpecCtor == InitAny /\ [][NextBurst]_vars

\* checks of a token bucket over the whole range of the clock
NextWide == \E hi \in WideHi, lo \in WideLo : WideIsAllowable(hi, lo)

SpecWide == Init /\ [][NextWide]_vars

\* ================================================================ claims

\* C1: after construction and after any sequence of allow(ts) calls, with
\* timestamps increasing, equal, decreasing or negative, the occupancy
\* satisfies 0 <= bucket <= capacity.
C1_BucketInRange == 0 <= lb.bucket /\ lb.bucket <= lb.capacity * One

\* a call at an earlier timestamp than the one before it has been made, and
\* the bucket is partly drained: strictly between empty and a whole request
C1_Witness ==
    /\ lbh.calls >= 3
    /\ lbh.ts < lbh.max
    /\ lbh.first < 0
    /\ 0 < lb.bucket /\ lb.bucket < One

C4_DrainedAdmits ==
    [][ ( /\ lbh.streak = lb.capacity
          /\ lbh'.calls = lbh.calls + 1
          /\ (lbh'.ts - lbh.ts) * lb.leakRate >= One * lb.capacity )
        => lbh'.ret ]_vars

C6_RefillAdmits ==
    (tbh.wasdep /\ tbh.gap * tb.refillRate >= SecPerMin) => tbh.ret

\* C7: the number of calls that return true is at most
\* capacity + leakRate * (Tmax - Tfirst) / 1000, for any order of timestamps.
C7_NoGainFromBackwardTime ==
    lbh.calls > 0 =>
        lbh.admits * One <= lb.capacity * One + lb.leakRate * (lbh.max - lbh.first)

\* C8: once set by the first call, last_ts never decreases.
C8_LastTsMonotone ==
    [][ (lbh.calls > 0 /\ lbh'.calls = lbh.calls + 1)
        => lb'.last_ts >= lb.last_ts ]_vars

C11_NoMisconfiguredLimiter ==
    /\ lbh.calls > 0 => (lb.capacity >= 1 /\ lb.leakRate >= 1)
    /\ tbh.calls > 0 => (tb.capacity >= 1 /\ tb.refillRate >= 1)

\* C12: with two callers on one shared instance and no mutual exclusion, a
\* state is reachable in which both passed the test at one timestamp with
\* room for only one, so that more events are admitted than capacity allows
\* or the level exceeds its bound (C12_Witness); and the bound is exceeded
\* in no other way than by such an overlap of test and write.
C12_OverrunOnlyByRace ==
    /\ (rh.okL > lb.capacity \/ lb.bucket > lb.capacity * One) => rh.lapL
    /\ (rh.okT > tb.capacity \/ tb.tokens < 0) => rh.lapT

\* all calls at one timestamp: the leaky bucket holds more than its capacity
\* and has admitted more calls than its capacity, the token bucket has
\* admitted more checks than it had tokens and its count is negative
C12_Witness ==
    /\ lb.bucket > lb.capacity * One /\ rh.okL > lb.capacity /\ rh.lapL
    /\ tb.tokens < 0 /\ rh.okT > tb.capacity /\ rh.lapT

\* C13: every allow(ts) call after the first computes
\* post = max(0, bucket - max(0, ts - last_ts) * leakRate / 1000), returns
\* true exactly when post + 1 <= capacity, and leaves bucket = post + 1 when
\* it returns true and bucket = post when it returns false.
C13_AllowFormula ==
    [][ (lbh.calls > 0 /\ lbh'.calls = lbh.calls + 1) =>
          LET elapsed == IF lbh'.ts - lb.last_ts > 0 THEN lbh'.ts - lb.last_ts ELSE 0
              level   == lb.bucket - elapsed * lb.leakRate
              post    == IF level > 0 THEN level ELSE 0
          IN  /\ lbh'.ret = (post + One <= lb.capacity * One)
              /\ lb'.bucket = IF lbh'.ret THEN post + One ELSE post ]_vars

\* C14: the first allow call, whatever its timestamp (-1 included), moves the
\* instance from Uninitialized to Active, and it stays Active: only the
\* first call skips draining.
C14_ActiveAfterFirstCall == lbh.calls > 0 => ~FirstCall(lb)

C17_LastTsIsLastCall == lbh.calls > 0 => lb.last_ts = lbh.ts

\* a later call was denied at a timestamp before an earlier call's, and the
\* first call's path was taken as well as the general one
C17_Witness ==
    /\ lbh.calls >= 2 /\ ~lbh.ret /\ lbh.ts < lbh.max /\ lbh.admits > 0
    /\ lb.last_ts = lbh.ts

\* C18: denied calls are transparent under monotone time: in a sequence of
\* allow calls with non-decreasing timestamps, a denied call changes neither
\* the return value of the call that follows it nor the occupancy after that
\* call, whatever timestamp (not smaller) the following call carries; the
\* calls after that then start from the same object either way.
C18_DeniedTransparent ==
    [][ (lbh'.calls = lbh.calls + 1 /\ ~lbh'.ret /\ lbh'.mono) =>
          \A u \in LbTimes : u >= lbh'.ts =>
              /\ AllowRet(lb', u) = AllowRet(lb, u)
              /\ AllowState(lb', u) = AllowState(lb, u) ]_vars

C20_BaselineExact ==
    /\ (tbh.calls > 0 /\ tbh.ret) =>
           (clk.hi = 0 /\ tb.lastRefillTime = clk.lo)
    /\ clk.hadok =>
           clk.tp = WideMinus([hi |-> clk.hi, lo |-> clk.lo],
                              [hi |-> clk.okhi, lo |-> clk.oklo])

=============================================================================
